---- MODULE Spec2Model ----
(***************************************************************************)
(* Model of src/app.py: the "Generate Docs" tab (tab4), a sequential loop   *)
(* over the rows of a sheet, and the "Agents Runner" tab (tab5), a          *)
(* sequential loop over the loaded agents.  The collaborators               *)
(* (google_utils, llm_providers) are external calls: each call either       *)
(* returns or raises, and the model records every call in `log`.            *)
(*                                                                         *)
(* Python strings are sequences of one-character strings, so that strip(),  *)
(* lower(), slicing, replace() and f-string concatenation are computed.     *)
(***************************************************************************)
EXTENDS Integers, Sequences, FiniteSets, TLC

(***************************************************************************)
(* Bounds of the model                                                     *)
(***************************************************************************)
MaxRows == 2

MaxAgents == 3

(***************************************************************************)
(* Program constants                                                       *)
(***************************************************************************)
TRIGGER_COL == <<"G", "e", "n", "e", "r", "a", "t", "e">>

STATUS_COL == <<"S", "t", "a", "t", "u", "s">>

URL_COL == <<"D", "o", "c", " ", "U", "R", "L">>

TS_COL == <<"G", "e", "n", "e", "r", "a", "t", "e", "d", " ", "A", "t">>

PDF_URL_COL == <<"P", "D", "F", " ", "U", "R", "L">>

ControlColumns == <<TRIGGER_COL, STATUS_COL, URL_COL, TS_COL, PDF_URL_COL>>

\* str(e)[:100]
ErrLimit == 100

ModeTrue == "Rows with Generate=TRUE"

ModeNoUrl == "All rows without Doc URL"

ModeManual == "Manual selection"

GenModes == {ModeTrue, ModeNoUrl, ModeManual}

TriggerValues ==
    { <<"t", "r", "u", "e">>, <<"y", "e", "s">>, <<"y">>, <<"1">>,
      <<"c", "h", "e", "c", "k", "e", "d">> }

(***************************************************************************)
(* Python string operations                                                *)
(***************************************************************************)
Whitespace == {" ", "\t", "\n"}

UpperChars ==
    <<"A", "B", "C", "D", "E", "F", "G", "H", "I", "J", "K", "L", "M",
      "N", "O", "P", "Q", "R", "S", "T", "U", "V", "W", "X", "Y", "Z">>

LowerChars ==
    <<"a", "b", "c", "d", "e", "f", "g", "h", "i", "j", "k", "l", "m",
      "n", "o", "p", "q", "r", "s", "t", "u", "v", "w", "x", "y", "z">>

LowerChar(c) ==
    IF \E i \in 1..Len(UpperChars) : UpperChars[i] = c
    THEN LowerChars[CHOOSE i \in 1..Len(UpperChars) : UpperChars[i] = c]
    ELSE c

\* str.lower()
Lower(s) == [i \in 1..Len(s) |-> LowerChar(s[i])]

RECURSIVE LStrip(_)
LStrip(s) ==
    IF s # <<>> /\ Head(s) \in Whitespace THEN LStrip(Tail(s)) ELSE s

RECURSIVE RStrip(_)
RStrip(s) ==
    IF s # <<>> /\ s[Len(s)] \in Whitespace
    THEN RStrip(SubSeq(s, 1, Len(s) - 1))
    ELSE s

\* str.strip()
Strip(s) == RStrip(LStrip(s))

\* s[:n]
Take(s, n) == SubSeq(s, 1, IF Len(s) < n THEN Len(s) ELSE n)

\* s.replace(old, new) for a non-empty old: leftmost non-overlapping matches
RECURSIVE Replace(_, _, _)
Replace(s, old, new) ==
    IF Len(s) < Len(old) THEN s
    ELSE IF SubSeq(s, 1, Len(old)) = old
         THEN new \o Replace(SubSeq(s, Len(old) + 1, Len(s)), old, new)
         ELSE <<Head(s)>> \o Replace(Tail(s), old, new)

\* f"{{{{{col}}}}}"
Placeholder(col) == <<"{", "{">> \o col \o <<"}", "}">>

(***************************************************************************)
(* Sheet contents read by read_sheet_df: the user's column followed by the  *)
(* control columns (ensure_control_columns), every cell a string            *)
(***************************************************************************)
COMPANY_COL == <<"C", "o", "m", "p", "a", "n", "y">>

Columns == <<COMPANY_COL>> \o ControlColumns

ColumnSet == {Columns[i] : i \in 1..Len(Columns)}

MakeRow(company, gen, url) ==
    [c \in ColumnSet |->
        IF c = COMPANY_COL THEN company
        ELSE IF c = TRIGGER_COL THEN gen
        ELSE IF c = URL_COL THEN url
        ELSE <<>>]

RowKinds ==
    { MakeRow(<<"A", "c", "m", "e">>, <<"T", "R", "U", "E">>, <<>>),
      MakeRow(<<"B", "o">>, <<" ", "Y", "e", "s", "\t">>, <<" ", " ">>),
      MakeRow(<<"C", "y">>, <<"t", "r", "u", "e", "!">>, <<>>),
      MakeRow(<<"D", "i">>, <<"1">>,
              <<" ", "h", "t", "t", "p", "s", ":", "/", "/", "x", " ">>) }

Sheets == UNION {[1..n -> RowKinds] : n \in 0..MaxRows}

\* Exception messages: one shorter and one longer than the slice str(e)[:100]
ShortMsg == <<"q", "u", "o", "t", "a">>

LongMsg == [i \in 1..(ErrLimit + 3) |-> IF i <= ErrLimit THEN "a" ELSE "b"]

Msgs == {ShortMsg, LongMsg}

SpreadsheetIds == {<<>>, <<"S", "1">>}

TemplateIds == {<<>>, <<"T", "1">>}

FilenamePatterns ==
    { <<"{", "{", "C", "o", "m", "p", "a", "n", "y", "}", "}", " ", "R">> }

Digits == <<"0", "1", "2", "3", "4", "5", "6", "7", "8", "9">>

Digit(n) == Digits[(n % 10) + 1]

\* The id Drive gives the n-th copy made in a run
DocId(n) == <<"d", "o", "c">> \o <<Digit(n)>>

\* datetime.now().strftime("%Y-%m-%d %H:%M:%S"), the clock counted in seconds
Strftime(t) ==
    <<"2", "0", "2", "5", "-", "0", "1", "-", "0", "1", " ",
      "0", "0", ":", "0", "0", ":">> \o <<Digit(t \div 10), Digit(t)>>

VARIABLES
    spreadsheet_id, template_id,
    clicked,
    df, gen_mode, create_pdf, manual_sel, custom_filename,
    pc, idx, success_count, error_count, filename, new_doc_id, exc,
    agents, num_agents, row_number, required_fields, context, results,
    agent_i, agent_name,
    metrics,
    spreadsheet_url, session_dest_folder_id,
    sheet_title, headers_input, folder_id, create_dest_folder, dest_folder_id,
    log, clock

session == <<spreadsheet_id, template_id, clicked>>

options == <<gen_mode, create_pdf, manual_sel, custom_filename>>

counters == <<success_count, error_count>>

runner ==
    <<agents, num_agents, row_number, required_fields, context, results,
      agent_i, agent_name>>

\* The Sheet Setup tab: what it leaves in the session, its inputs, its local
setup ==
    <<spreadsheet_url, session_dest_folder_id, sheet_title, headers_input,
      folder_id, create_dest_folder, dest_folder_id>>

vars ==
    <<spreadsheet_id, template_id, clicked, df, gen_mode, create_pdf,
      manual_sel, custom_filename, pc, idx, success_count, error_count,
      filename, new_doc_id, exc, agents, num_agents, row_number,
      required_fields, context, results, agent_i, agent_name, metrics,
      spreadsheet_url, session_dest_folder_id, sheet_title, headers_input,
      folder_id, create_dest_folder, dest_folder_id, log, clock>>

\* One entry of the record of external calls and loop evaluations
\* (ret is the value returned, msg the message of the exception raised)
Event(op, row, arg, raised, ret, msg) ==
    [op |-> op, row |-> row, arg |-> arg, raised |-> raised, ret |-> ret,
     msg |-> msg, at |-> clock]

Returned(op, row, arg, ret) == Event(op, row, arg, FALSE, ret, <<>>)

Raised(op, row, arg, m) == Event(op, row, arg, TRUE, <<>>, m)

\* Python's None
NoneValue == <<"None">>

\* The url of the sheet the session holds
SheetUrl(id) ==
    <<"h", "t", "t", "p", "s", ":", "/", "/", "s", "h", "e", "e", "t", "/">>
    \o id

\* The destination folder an earlier "Create Sheet" left in the session
SessionFolders(c) ==
    IF c = "create_sheet" THEN {NoneValue, <<"F", "0">>} ELSE {NoneValue}

\* The script starts with button c pressed, at the tab p that handles it
Start(c, p) ==
    /\ spreadsheet_id \in SpreadsheetIds
    /\ template_id \in TemplateIds
    /\ clicked = c
    /\ df = <<>>
    /\ gen_mode = ModeTrue
    /\ create_pdf = TRUE
    /\ manual_sel = {}
    /\ custom_filename \in FilenamePatterns
    /\ pc = p
    /\ idx = 0
    /\ success_count = 0
    /\ error_count = 0
    /\ filename = <<>>
    /\ new_doc_id = <<>>
    /\ exc = <<>>
    /\ agents = <<>>
    /\ num_agents = 1
    /\ row_number = 2
    /\ required_fields = <<>>
    /\ context = <<>>
    /\ results = <<>>
    /\ agent_i = 0
    /\ agent_name = <<>>
    /\ metrics = NoneValue
    /\ spreadsheet_url =
          (IF spreadsheet_id = <<>> THEN NoneValue ELSE SheetUrl(spreadsheet_id))
    /\ session_dest_folder_id \in SessionFolders(c)
    /\ sheet_title = <<>>
    /\ headers_input = <<>>
    /\ folder_id = <<>>
    /\ create_dest_folder = <<>>
    /\ dest_folder_id = NoneValue
    /\ log = <<>>
    /\ clock = 0

Init ==
    \/ Start("generate", "tab4")
    \/ Start("agents", "tab5")
    \/ Start("none", "tab1")
    \/ Start("create_sheet", "tab2")

(***************************************************************************)
(* tab4: Generate Docs                                                     *)
(***************************************************************************)
Log(e) == log' = Append(log, e) /\ clock' = clock + 1

\* A guard that forgets the template
Tab4GuardSheetOnly ==
    /\ pc = "tab4"
    /\ pc' = IF spreadsheet_id = <<>> THEN "warn_sheet" ELSE "ensure"
    /\ UNCHANGED <<session, runner, setup, metrics, df, options, idx, counters, filename,
                   new_doc_id, exc, log, clock>>

\* if not spreadsheet_id: warning / elif not template_id: warning / else: try
Tab4Guard ==
    /\ pc = "tab4"
    /\ pc' = IF spreadsheet_id = <<>> THEN "warn_sheet"
             ELSE IF template_id = <<>> THEN "warn_template"
             ELSE "ensure"
    /\ UNCHANGED <<session, runner, setup, metrics, df, options, idx, counters, filename,
                   new_doc_id, exc, log, clock>>

\* ensure_control_columns(spreadsheet_id, [...]); a raise reaches line 837
EnsureControlColumns ==
    /\ pc = "ensure"
    /\ \/ /\ Log(Returned("ensure_control_columns", 0,
                          <<spreadsheet_id, ControlColumns>>, <<>>))
          /\ pc' = "read"
       \/ \E m \in Msgs :
             /\ Log(Raised("ensure_control_columns", 0,
                           <<spreadsheet_id, ControlColumns>>, m))
             /\ pc' = "load_error"
    /\ UNCHANGED <<session, runner, setup, metrics, df, options, idx, counters, filename,
                   new_doc_id, exc>>

\* df = read_sheet_df(spreadsheet_id); if df.empty: info
ReadSheetDf ==
    /\ pc = "read"
    /\ \/ \E d \in Sheets :
             /\ df' = d
             /\ Log(Returned("read_sheet_df", 0, <<spreadsheet_id>>, d))
             /\ pc' = IF d = <<>> THEN "no_rows" ELSE "options"
       \/ \E m \in Msgs :
             /\ Log(Raised("read_sheet_df", 0, <<spreadsheet_id>>, m))
             /\ pc' = "load_error"
             /\ UNCHANGED df
    /\ UNCHANGED <<session, runner, setup, metrics, options, idx, counters, filename, new_doc_id, exc>>

\* options=list(range(2, len(df) + 2))
ManualOptions == 2..(Len(df) + 1)

\* The widgets' values when "Generate Documents Now" is pressed
ClickGenerate ==
    /\ pc = "options"
    /\ \E mode \in GenModes, pdf \in BOOLEAN, sel \in SUBSET ManualOptions :
          /\ mode # ModeManual => sel = {}
          /\ gen_mode' = mode
          /\ create_pdf' = pdf
          /\ manual_sel' = sel
    /\ success_count' = 0
    /\ error_count' = 0
    /\ idx' = 0
    /\ pc' = "loop"
    /\ UNCHANGED <<session, runner, setup, metrics, df, custom_filename, filename, new_doc_id, exc,
                   log, clock>>

\* The row's position in df (idx) is 0-based; df[idx + 1] is the row
CurrentRow == df[idx + 1]

\* The filter without lower()
SkippedCaseSensitive(mode, sel, row, k) ==
    IF mode = ModeTrue /\ Strip(row[TRIGGER_COL]) \notin TriggerValues
    THEN TRUE
    ELSE IF mode = ModeNoUrl /\ Strip(row[URL_COL]) # <<>>
    THEN TRUE
    ELSE IF mode = ModeManual /\ (k + 2) \notin sel
    THEN TRUE
    ELSE Strip(row[URL_COL]) # <<>>

\* The filter with the selected numbers read as positions counted from 1
SkippedManualOffByOne(mode, sel, row, k) ==
    IF mode = ModeTrue /\ Lower(Strip(row[TRIGGER_COL])) \notin TriggerValues
    THEN TRUE
    ELSE IF mode = ModeNoUrl /\ Strip(row[URL_COL]) # <<>>
    THEN TRUE
    ELSE IF mode = ModeManual /\ (k + 1) \notin sel
    THEN TRUE
    ELSE Strip(row[URL_COL]) # <<>>

\* The filter without the check of line 784
SkippedNoUrlCheck(mode, sel, row, k) ==
    IF mode = ModeTrue /\ Lower(Strip(row[TRIGGER_COL])) \notin TriggerValues
    THEN TRUE
    ELSE IF mode = ModeNoUrl /\ Strip(row[URL_COL]) # <<>>
    THEN TRUE
    ELSE IF mode = ModeManual /\ (k + 2) \notin sel
    THEN TRUE
    ELSE FALSE

\* Lines 772-785: TRUE when the loop `continue`s past the row
Skipped(mode, sel, row, k) ==
    IF mode = ModeTrue /\ Lower(Strip(row[TRIGGER_COL])) \notin TriggerValues
    THEN TRUE
    ELSE IF mode = ModeNoUrl /\ Strip(row[URL_COL]) # <<>>
    THEN TRUE
    ELSE IF mode = ModeManual /\ (k + 2) \notin sel
    THEN TRUE
    ELSE Strip(row[URL_COL]) # <<>>

\* for col in df.columns: filename = filename.replace("{{col}}", str(row[col]))
\* A loop that replaces only the first occurrence of each placeholder
RECURSIVE ReplaceFirst(_, _, _)
ReplaceFirst(s, old, new) ==
    IF Len(s) < Len(old) THEN s
    ELSE IF SubSeq(s, 1, Len(old)) = old
         THEN new \o SubSeq(s, Len(old) + 1, Len(s))
         ELSE <<Head(s)>> \o ReplaceFirst(Tail(s), old, new)

RECURSIVE ReplaceColumnsFirstOnly(_, _, _)
ReplaceColumnsFirstOnly(name, row, i) ==
    IF i > Len(Columns) THEN name
    ELSE ReplaceColumnsFirstOnly(
             ReplaceFirst(name, Placeholder(Columns[i]), row[Columns[i]]),
             row, i + 1)

RECURSIVE ReplaceColumns(_, _, _)
ReplaceColumns(name, row, i) ==
    IF i > Len(Columns) THEN name
    ELSE ReplaceColumns(Replace(name, Placeholder(Columns[i]), row[Columns[i]]),
                        row, i + 1)

BuildFilename(pattern, row) == ReplaceColumns(pattern, row, 1)

\* A loop that does not move past a row it skips until it has seen it twice
SelectRowTwice ==
    /\ pc = "loop"
    /\ idx < Len(df)
    /\ log' = Append(log, Returned("select", idx, <<gen_mode, manual_sel>>, <<>>))
    /\ IF Skipped(gen_mode, manual_sel, CurrentRow, idx)
       THEN /\ idx' = IF \E i \in 1..Len(log) :
                            log[i].op = "select" /\ log[i].row = idx
                      THEN idx + 1 ELSE idx
            /\ pc' = "loop"
            /\ UNCHANGED filename
       ELSE /\ filename' = BuildFilename(custom_filename, CurrentRow)
            /\ pc' = "copy"
            /\ UNCHANGED idx
    /\ UNCHANGED <<session, runner, setup, metrics, df, options, counters, new_doc_id, exc,
                   clock>>

\* One iteration's selection check, up to the start of the try block
SelectRow ==
    /\ pc = "loop"
    /\ idx < Len(df)
    /\ log' = Append(log, Returned("select", idx, <<gen_mode, manual_sel>>, <<>>))
    /\ IF Skipped(gen_mode, manual_sel, CurrentRow, idx)
       THEN /\ idx' = idx + 1
            /\ pc' = "loop"
            /\ UNCHANGED filename
       ELSE /\ filename' = BuildFilename(custom_filename, CurrentRow)
            /\ pc' = "copy"
            /\ UNCHANGED idx
    /\ UNCHANGED <<session, runner, setup, metrics, df, options, counters, new_doc_id, exc, clock>>

CopiesMade == Cardinality({i \in 1..Len(log) :
                              log[i].op = "copy_gdoc" /\ ~log[i].raised})

\* new_doc_id = copy_gdoc(template_id, filename, dest_folder_id)
CopyGdoc ==
    /\ pc = "copy"
    /\ \/ /\ new_doc_id' = DocId(CopiesMade + 1)
          /\ Log(Returned("copy_gdoc", idx, <<template_id, filename, session_dest_folder_id>>,
                       DocId(CopiesMade + 1)))
          /\ pc' = "replace"
          /\ UNCHANGED exc
       \/ \E m \in Msgs :
             /\ Log(Raised("copy_gdoc", idx, <<template_id, filename, session_dest_folder_id>>, m))
             /\ exc' = m
             /\ pc' = "except"
             /\ UNCHANGED new_doc_id
    /\ UNCHANGED <<session, runner, setup, metrics, df, options, idx, counters, filename>>

\* mapping = {col: row.get(col, "") for col in df.columns}
Mapping(row) == [c \in ColumnSet |-> row[c]]

\* A substitution whose exception is swallowed
ReplacePlaceholdersSwallowed ==
    /\ pc = "replace"
    /\ \/ /\ Log(Returned("replace_placeholders", idx,
                          <<new_doc_id, Mapping(CurrentRow)>>, <<>>))
          /\ pc' = "write_back"
          /\ UNCHANGED exc
       \/ \E m \in Msgs :
             /\ Log(Raised("replace_placeholders", idx,
                           <<new_doc_id, Mapping(CurrentRow)>>, m))
             /\ exc' = m
             /\ pc' = "write_back"
    /\ UNCHANGED <<session, runner, setup, metrics, df, options, idx, counters, filename,
                   new_doc_id>>

\* replace_placeholders(new_doc_id, mapping)
ReplacePlaceholders ==
    /\ pc = "replace"
    /\ \/ /\ Log(Returned("replace_placeholders", idx,
                          <<new_doc_id, Mapping(CurrentRow)>>, <<>>))
          /\ pc' = "write_back"
          /\ UNCHANGED exc
       \/ \E m \in Msgs :
             /\ Log(Raised("replace_placeholders", idx,
                           <<new_doc_id, Mapping(CurrentRow)>>, m))
             /\ exc' = m
             /\ pc' = "except"
    /\ UNCHANGED <<session, runner, setup, metrics, df, options, idx, counters, filename, new_doc_id>>

DocUrl(id) ==
    <<"h", "t", "t", "p", "s", ":", "/", "/", "d", "o", "c", "s", ".", "g",
      "o", "o", "g", "l", "e", ".", "c", "o", "m", "/", "d", "o", "c", "u",
      "m", "e", "n", "t", "/", "d", "/">> \o id \o <<"/", "e", "d", "i", "t">>

PdfUrl(id) ==
    <<"h", "t", "t", "p", "s", ":", "/", "/", "d", "o", "c", "s", ".", "g",
      "o", "o", "g", "l", "e", ".", "c", "o", "m", "/", "d", "o", "c", "u",
      "m", "e", "n", "t", "/", "d", "/">> \o id \o
    <<"/", "e", "x", "p", "o", "r", "t", "?", "f", "o", "r", "m", "a", "t",
      "=", "p", "d", "f">>

StatusDone == <<"D", "o", "n", "e">>

\* Updates that hold the PDF URL whatever the checkbox says
SuccessUpdatesAlwaysPdf(id, now, pdf) ==
    (STATUS_COL :> StatusDone) @@ (URL_COL :> DocUrl(id))
    @@ (TS_COL :> Strftime(now)) @@ (PDF_URL_COL :> PdfUrl(id))

\* Lines 804-814: the updates dict of a successful row
SuccessUpdates(id, now, pdf) ==
    LET base == (STATUS_COL :> StatusDone) @@ (URL_COL :> DocUrl(id))
                @@ (TS_COL :> Strftime(now))
    IN  IF pdf THEN base @@ (PDF_URL_COL :> PdfUrl(id)) ELSE base

\* A loop that counts the success before the write_back is made
WriteBackDoneCountedFirst ==
    /\ pc = "write_back"
    /\ success_count' = success_count + 1
    /\ LET updates == SuccessUpdates(new_doc_id, clock, create_pdf)
           call == <<spreadsheet_id, idx + 2, updates>>
       IN  \/ /\ Log(Returned("write_back", idx, call, <<>>))
              /\ idx' = idx + 1
              /\ pc' = "loop"
              /\ UNCHANGED <<error_count, exc>>
           \/ \E m \in Msgs :
                 /\ Log(Raised("write_back", idx, call, m))
                 /\ exc' = m
                 /\ pc' = "except"
                 /\ UNCHANGED <<idx, error_count>>
    /\ UNCHANGED <<session, runner, setup, metrics, df, options, filename, new_doc_id>>

\* write_back(spreadsheet_id, row_index_1, updates); success_count += 1
WriteBackDone ==
    /\ pc = "write_back"
    /\ LET updates == SuccessUpdates(new_doc_id, clock, create_pdf)
           call == <<spreadsheet_id, idx + 2, updates>>
       IN  \/ /\ Log(Returned("write_back", idx, call, <<>>))
              /\ success_count' = success_count + 1
              /\ idx' = idx + 1
              /\ pc' = "loop"
              /\ UNCHANGED <<error_count, exc>>
           \/ \E m \in Msgs :
                 /\ Log(Raised("write_back", idx, call, m))
                 /\ exc' = m
                 /\ pc' = "except"
                 /\ UNCHANGED <<idx, counters>>
    /\ UNCHANGED <<session, runner, setup, metrics, df, options, filename, new_doc_id>>

ErrorPrefix == <<"E", "r", "r", "o", "r", ":", " ">>

\* The handler's update without the slice
ErrorUpdatesUnsliced(e) == (STATUS_COL :> (ErrorPrefix \o e))

\* {STATUS_COL: f"Error: {str(e)[:100]}"}
ErrorUpdates(e) == (STATUS_COL :> (ErrorPrefix \o Take(e, ErrLimit)))

\* A handler that tries the failed row again instead of moving on
ExceptHandlerRetry ==
    /\ pc = "except"
    /\ error_count < 2
    /\ error_count' = error_count + 1
    /\ Log(Returned("write_back", idx,
                    <<spreadsheet_id, idx + 2,
                      (STATUS_COL :> (ErrorPrefix \o Take(exc, ErrLimit)))>>,
                    <<>>))
    /\ pc' = "copy"
    /\ UNCHANGED <<session, runner, setup, metrics, df, options, idx, success_count, filename,
                   new_doc_id, exc>>

\* Lines 822-828: except Exception as e; a raise of this write_back is not
\* caught by the row's try and reaches the tab's except at line 837
ExceptHandler ==
    /\ pc = "except"
    /\ error_count' = error_count + 1
    /\ LET call == <<spreadsheet_id, idx + 2, ErrorUpdates(exc)>>
       IN  \/ /\ Log(Returned("write_back", idx, call, <<>>))
              /\ idx' = idx + 1
              /\ pc' = "loop"
           \/ /\ Log(Raised("write_back", idx, call, ShortMsg))
              /\ pc' = "load_error"
              /\ UNCHANGED idx
    /\ UNCHANGED <<session, runner, setup, metrics, df, options, success_count, filename, new_doc_id,
                   exc>>

\* The loop is exhausted: the "Generation Complete" card
Summary ==
    /\ pc = "loop"
    /\ idx >= Len(df)
    /\ pc' = "summary"
    /\ UNCHANGED <<session, runner, setup, metrics, df, options, idx, counters, filename, new_doc_id,
                   exc, log, clock>>

(***************************************************************************)
(* tab5: Agents Runner                                                     *)
(***************************************************************************)
\* The k-th agent of agents.yaml (k from 1): a dict that may lack name and id
AgentAt(k) ==
    IF k % 3 = 1
    THEN [id |-> <<"a", Digit(k)>>, name |-> <<"N", Digit(k)>>,
          provider |-> "openai"]
    ELSE IF k % 3 = 2
    THEN [id |-> <<"a", Digit(k)>>, provider |-> "gemini"]
    ELSE [provider |-> "grok"]

LoadedAgents(n) == [k \in 1..n |-> AgentAt(k)]

\* agent.get("name", agent.get("id", f"Agent {i+1}")), i from 0
AgentName(agent, i) ==
    IF "name" \in DOMAIN agent THEN agent.name
    ELSE IF "id" \in DOMAIN agent THEN agent.id
    ELSE <<"A", "g", "e", "n", "t", " ", Digit(i + 1)>>

RequiredFieldsInputs ==
    { <<"C", "o", "m", "p", "a", "n", "y", ",", " ", "I", "n", "d", "u", "s",
        "t", "r", "y", ",", " ", "R", "e", "v", "e", "n", "u", "e">> }

\* json.dumps escapes of the characters a cell can hold
JsonChar(c) ==
    IF c = "\"" THEN <<"\\", "\"">>
    ELSE IF c = "\\" THEN <<"\\", "\\">>
    ELSE IF c = "\t" THEN <<"\\", "t">>
    ELSE IF c = "\n" THEN <<"\\", "n">>
    ELSE <<c>>

RECURSIVE JsonEscape(_)
JsonEscape(s) ==
    IF s = <<>> THEN <<>> ELSE JsonChar(Head(s)) \o JsonEscape(Tail(s))

JsonString(s) == <<"\"">> \o JsonEscape(s) \o <<"\"">>

RECURSIVE JsonItems(_, _)
JsonItems(row, i) ==
    IF i > Len(Columns) THEN <<>>
    ELSE <<"\n", " ", " ">> \o JsonString(Columns[i]) \o <<":", " ">>
         \o JsonString(row[Columns[i]])
         \o (IF i < Len(Columns) THEN <<",">> ELSE <<>>)
         \o JsonItems(row, i + 1)

\* json.dumps(row_data, ensure_ascii=False, indent=2) of a row's dict
JsonDumps(row) == <<"{">> \o JsonItems(row, 1) \o <<"\n", "}">>

\* Lines 1129-1133
BuildContext(d, rownum, required) ==
    [row_json |-> JsonDumps(d[(rownum - 2) + 1]),
     required_fields_csv |-> required]

\* A guard that lets an empty spreadsheet id through
NeedSheetNever == FALSE

\* if not spreadsheet_id: st.error("Please provide a spreadsheet ID")
NeedSheet == spreadsheet_id = <<>>

\* if row_number - 2 >= len(df) or row_number - 2 < 0
RowOutOfRange(rownum, d) == rownum - 2 >= Len(d) \/ rownum - 2 < 0

\* The widgets' values when "Run Agents Pipeline" is pressed: the agents
\* loaded (a non-empty list), 1 <= num_agents <= len(agents), the row number
\* the number_input held, the required-fields text
ClickRunAgents ==
    /\ pc = "tab5"
    /\ \E n \in 1..MaxAgents :
          /\ agents' = LoadedAgents(n)
          /\ num_agents' \in 1..n
    /\ row_number' \in IF spreadsheet_id = <<>> THEN {2} ELSE 2..(MaxRows + 1)
    /\ required_fields' \in RequiredFieldsInputs
    /\ pc' = IF NeedSheet THEN "need_sheet" ELSE "agents_read"
    /\ UNCHANGED <<session, setup, metrics, df, options, idx, counters, filename, new_doc_id,
                   exc, context, results, agent_i, agent_name, log, clock>>

\* Lines 1124-1143: read the sheet, check the range, build the context
AgentsReadSheet ==
    /\ pc = "agents_read"
    /\ \/ \E d \in Sheets :
             /\ df' = d
             /\ Log(Returned("read_sheet_df", 0, <<spreadsheet_id>>, d))
             /\ IF RowOutOfRange(row_number, d)
                THEN /\ pc' = "out_of_range"
                     /\ UNCHANGED <<context, results, agent_i>>
                ELSE /\ context' = BuildContext(d, row_number, required_fields)
                     /\ results' = <<>>
                     /\ agent_i' = 0
                     /\ pc' = "agent_loop"
       \/ \E m \in Msgs :
             /\ Log(Raised("read_sheet_df", 0, <<spreadsheet_id>>, m))
             /\ pc' = "agents_error"
             /\ UNCHANGED <<df, context, results, agent_i>>
    /\ UNCHANGED <<session, setup, metrics, options, idx, counters, filename, new_doc_id, exc,
                   agents, num_agents, row_number, required_fields,
                   agent_name>>

\* A loop over every loaded agent
LoopBoundAllAgents == Len(agents)

\* for i in range(int(num_agents))
LoopBound == num_agents

\* A context that carries the previous agent's output along
ContextChained(i) ==
    IF results = <<>> THEN context
    ELSE [context EXCEPT !.row_json = @ \o results[Len(results)].output]

\* The context run_agent is given in iteration i
ContextFor(i) == context

\* agent = agents[i]; output = run_agent(agent, context) is entered
RunAgentCall ==
    /\ pc = "agent_loop"
    /\ agent_i < LoopBound
    /\ agent_name' = AgentName(agents[agent_i + 1], agent_i)
    /\ Log(Returned("run_agent_start", agent_i,
                    <<agents[agent_i + 1], ContextFor(agent_i)>>, <<>>))
    /\ pc' = "in_run_agent"
    /\ UNCHANGED <<session, setup, metrics, df, options, idx, counters, filename, new_doc_id,
                   exc, agents, num_agents, row_number, required_fields,
                   context, results, agent_i>>

\* What the provider answers to the i-th agent
AgentOutput(i) == <<"o", "u", "t", Digit(i)>>

\* run_agent returned: results.append({... "status": "success" ...})
RunAgentReturn ==
    /\ pc = "in_run_agent"
    /\ Log(Returned("run_agent_end", agent_i, <<>>, AgentOutput(agent_i)))
    /\ results' = Append(results, [agent |-> agent_name, status |-> "success",
                                   output |-> AgentOutput(agent_i)])
    /\ agent_i' = agent_i + 1
    /\ pc' = "agent_loop"
    /\ UNCHANGED <<session, setup, metrics, df, options, idx, counters, filename, new_doc_id,
                   exc, agents, num_agents, row_number, required_fields,
                   context, agent_name>>

\* An exception of run_agent that leaves the loop for the except of line 1195
RunAgentRaiseEscapes ==
    /\ pc = "in_run_agent"
    /\ \E m \in Msgs : Log(Raised("run_agent_end", agent_i, <<>>, m))
    /\ pc' = "agents_error"
    /\ UNCHANGED <<session, setup, metrics, df, options, idx, counters, filename, new_doc_id,
                   exc, agents, num_agents, row_number, required_fields,
                   context, results, agent_i, agent_name>>

\* run_agent raised: results.append({... "status": "error" ...})
RunAgentRaise ==
    /\ pc = "in_run_agent"
    /\ \E m \in Msgs :
          /\ Log(Raised("run_agent_end", agent_i, <<>>, m))
          /\ results' = Append(results, [agent |-> agent_name,
                                         status |-> "error",
                                         output |-> ErrorPrefix \o m])
    /\ agent_i' = agent_i + 1
    /\ pc' = "agent_loop"
    /\ UNCHANGED <<session, setup, metrics, df, options, idx, counters, filename, new_doc_id,
                   exc, agents, num_agents, row_number, required_fields,
                   context, agent_name>>

\* The loop is over: "Agent Results" are displayed
DisplayResults ==
    /\ pc = "agent_loop"
    /\ agent_i >= LoopBound
    /\ pc' = "results"
    /\ UNCHANGED <<session, runner, setup, metrics, df, options, idx, counters, filename,
                   new_doc_id, exc, log, clock>>

(***************************************************************************)
(* The filename loop of one row, for filename patterns and cells of any     *)
(* content                                                                  *)
(***************************************************************************)
PatternInputs ==
    { <<"{", "{", "C", "o", "m", "p", "a", "n", "y", "}", "}", " ", "R">>,
      <<"{", "{", "G", "e", "n", "e", "r", "a", "t", "e", "}", "}">>,
      <<"{", "{", "C", "o", "m", "{", "{", "G", "e", "n", "e", "r", "a", "t", "e", "}", "}", "n", "y", "}", "}">>,
      <<"{", "{", "C", "o", "m", "p", "a", "n", "y", "}", "}", "-", "{", "{", "C", "o", "m", "p", "a", "n", "y", "}", "}">>,
      <<"{", "{", "I", "n", "d", "u", "s", "t", "r", "y", "}", "}", " ", "{", "{", "P", "D", "F", " ", "U", "R", "L", "}", "}">>,
      <<"{", "{", "{", "{", "C", "o", "m", "p", "a", "n", "y", "}", "}", "C", "o", "m", "p", "a", "n", "y", "}", "}">> }

CompanyCells == {<<"A", "c", "m", "e">>, <<>>, <<"{", "{", "S", "t", "a", "t", "u", "s", "}", "}">>}

GenerateCells == {<<"T", "R", "U", "E">>, <<"p", "a">>, <<"{", "{", "C", "o", "m", "p", "a", "n", "y", "}", "}">>}

CellRows == {MakeRow(c, g, <<>>) : c \in CompanyCells, g \in GenerateCells}

\* The loop has selected the only row of the sheet (manual selection of
\* row 2) and is about to build its filename
FilenameInit ==
    /\ spreadsheet_id = <<"S", "1">>
    /\ template_id = <<"T", "1">>
    /\ clicked = "generate"
    /\ df \in {<<r>> : r \in CellRows}
    /\ gen_mode = ModeManual
    /\ create_pdf = TRUE
    /\ manual_sel = {2}
    /\ custom_filename \in PatternInputs
    /\ pc = "build_filename"
    /\ idx = 0
    /\ success_count = 0
    /\ error_count = 0
    /\ filename = <<>>
    /\ new_doc_id = <<>>
    /\ exc = <<>>
    /\ agents = <<>>
    /\ num_agents = 1
    /\ row_number = 2
    /\ required_fields = <<>>
    /\ context = <<>>
    /\ results = <<>>
    /\ agent_i = 0
    /\ agent_name = <<>>
    /\ metrics = NoneValue
    /\ spreadsheet_url = SheetUrl(spreadsheet_id)
    /\ session_dest_folder_id = NoneValue
    /\ sheet_title = <<>>
    /\ headers_input = <<>>
    /\ folder_id = <<>>
    /\ create_dest_folder = <<>>
    /\ dest_folder_id = NoneValue
    /\ clock = 2
    /\ log = << [op |-> "ensure_control_columns", row |-> 0,
                 arg |-> <<spreadsheet_id, ControlColumns>>, raised |-> FALSE,
                 ret |-> <<>>, msg |-> <<>>, at |-> 0],
                [op |-> "read_sheet_df", row |-> 0,
                 arg |-> <<spreadsheet_id>>, raised |-> FALSE,
                 ret |-> df, msg |-> <<>>, at |-> 1],
                [op |-> "select", row |-> 0,
                 arg |-> <<gen_mode, manual_sel>>, raised |-> FALSE,
                 ret |-> <<>>, msg |-> <<>>, at |-> 2] >>

\* filename = custom_filename; for col in df.columns: filename = ...
FilenameLoop ==
    /\ pc = "build_filename"
    /\ filename' = BuildFilename(custom_filename, CurrentRow)
    /\ pc' = "copy"
    /\ UNCHANGED <<session, runner, setup, metrics, df, options, idx,
                   counters, new_doc_id, exc, log, clock>>

FilenameNext ==
    \/ FilenameLoop
    \/ CopyGdoc

FilenameSpec == FilenameInit /\ [][FilenameNext]_vars

(***************************************************************************)
(* tab1: the dashboard, rendered when the session holds a spreadsheet       *)
(***************************************************************************)
StartsWith(s, prefix) ==
    Len(s) >= Len(prefix) /\ SubSeq(s, 1, Len(prefix)) = prefix

Contains(s, part) ==
    \E i \in 1..(Len(s) - Len(part) + 1) :
        SubSeq(s, i, i + Len(part) - 1) = part

DoneWord == StatusDone

ErrorWord == <<"E", "r", "r", "o", "r">>

\* Status cells a sheet can hold
StatusValues ==
    { <<>>,
      StatusDone,
      ErrorPrefix \o ShortMsg,
      <<"D", "o", "n", "e", ",", " ", "w", "a", "s", " ", "E", "r", "r", "o", "r">>,
      <<"d", "o", "n", "e">> }

StatusRow(status) == [c \in ColumnSet |-> IF c = STATUS_COL THEN status ELSE <<>>]

\* A row of a sheet that has no control columns yet
BareRow == [c \in {COMPANY_COL} |-> <<"A">>]

DashboardSheets ==
    UNION {[1..n -> {StatusRow(s) : s \in StatusValues}] : n \in 0..MaxRows}
    \cup {[i \in 1..n |-> BareRow] : n \in 1..MaxRows}

DoneCount(d) ==
    Cardinality({i \in 1..Len(d) : StartsWith(d[i][STATUS_COL], DoneWord)})

\* Rows counted as errors when the word may stand anywhere in the cell
ErrorCountContains(d) ==
    Cardinality({i \in 1..Len(d) : Contains(d[i][STATUS_COL], ErrorWord)})

ErrorCount(d) ==
    Cardinality({i \in 1..Len(d) : StartsWith(d[i][STATUS_COL], ErrorWord)})

Metrics(d) ==
    [total_rows |-> Len(d),
     done_count |-> DoneCount(d),
     error_count |-> ErrorCount(d),
     pending_count |-> Len(d) - DoneCount(d) - ErrorCount(d)]

Tab1Guard ==
    /\ pc = "tab1"
    /\ pc' = IF spreadsheet_id # <<>> THEN "dash_read" ELSE "welcome"
    /\ UNCHANGED <<session, runner, setup, metrics, df, options, idx,
                   counters, filename, new_doc_id, exc, log, clock>>

DashboardRead ==
    /\ pc = "dash_read"
    /\ \/ \E d \in DashboardSheets :
             /\ df' = d
             /\ Log(Returned("read_sheet_df", 0, <<spreadsheet_id>>, d))
             /\ pc' = "dash_data"
       \/ \E m \in Msgs :
             /\ Log(Raised("read_sheet_df", 0, <<spreadsheet_id>>, m))
             /\ pc' = "dash_error"
             /\ UNCHANGED df
    /\ UNCHANGED <<session, runner, setup, metrics, options, idx, counters,
                   filename, new_doc_id, exc>>

DashboardMetrics ==
    /\ pc = "dash_data"
    /\ IF df # <<>> /\ STATUS_COL \in DOMAIN df[1]
       THEN /\ metrics' = Metrics(df)
            /\ pc' = "dash_metrics"
       ELSE /\ pc' = "dash_no_data"
            /\ UNCHANGED metrics
    /\ UNCHANGED <<session, runner, setup, df, options, idx, counters,
                   filename, new_doc_id, exc, log, clock>>

(***************************************************************************)
(* tab2: "Create Sheet"                                                     *)
(***************************************************************************)
\* str.split(sep) for a separator of one character
RECURSIVE Split(_, _)
Split(s, sep) ==
    IF \A i \in 1..Len(s) : s[i] # sep THEN <<s>>
    ELSE LET i == CHOOSE j \in 1..Len(s) :
                      s[j] = sep /\ \A k \in 1..(j - 1) : s[k] # sep
         IN  <<SubSeq(s, 1, i - 1)>> \o Split(SubSeq(s, i + 1, Len(s)), sep)

NotBlank(h) == h # <<>>

\* The list keeps the untrimmed pieces
HeadersUntrimmed(input) ==
    LET parts == Split(input, ",")
    IN  SelectSeq(parts, LAMBDA h : Strip(h) # <<>>)

Headers(input) ==
    LET parts == Split(input, ",")
    IN  SelectSeq([i \in 1..Len(parts) |-> Strip(parts[i])], NotBlank)

FullHeaders(input) == Headers(input) \o ControlColumns

TitleInputs == {<<"D", "a", "t", "a", " ", "M", "i", "n", "i", "n", "g", " ", "W", "o", "r", "k", "s", "p", "a", "c", "e">>}

HeaderInputs ==
    { <<"C", "o", "m", "p", "a", "n", "y", ",", " ", "I", "n", "d", "u", "s", "t", "r", "y">>,
      <<" ", "A", " ", ",", ",", "B", " ", ",", " ">>,
      <<"N", "e", "t", " ", "R", "e", "v", "e", "n", "u", "e">>,
      <<",", " ", ",">>,
      <<>> }

FolderIdInputs == {<<>>, <<"F", "1">>}

FolderNameInputs == {<<>>, <<"O", "u", "t">>}

\* What ensure_folder and create_sheet can return
FolderIds == {<<"F", "1">>, <<"F", "9">>}

SheetInfos ==
    {[spreadsheet_id |-> id, url |-> SheetUrl(id)] :
        id \in {<<"S", "2">>, <<"S", "3">>}}

ClickCreateSheet ==
    /\ pc = "tab2"
    /\ sheet_title' \in TitleInputs
    /\ headers_input' \in HeaderInputs
    /\ folder_id' \in FolderIdInputs
    /\ create_dest_folder' \in FolderNameInputs
    /\ IF folder_id' # <<>> \/ create_dest_folder' # <<>>
       THEN pc' = "ensure_folder"
       ELSE pc' = "create_sheet"
    /\ UNCHANGED <<session, runner, spreadsheet_url, session_dest_folder_id,
                   dest_folder_id, metrics, df, options, idx, counters,
                   filename, new_doc_id, exc, log, clock>>

EnsureFolder ==
    /\ pc = "ensure_folder"
    /\ \/ \E f \in FolderIds :
             /\ dest_folder_id' = f
             /\ Log(Returned("ensure_folder", 0,
                             <<folder_id, create_dest_folder>>, f))
             /\ pc' = "create_sheet"
       \/ \E m \in Msgs :
             /\ Log(Raised("ensure_folder", 0,
                           <<folder_id, create_dest_folder>>, m))
             /\ pc' = "create_error"
             /\ UNCHANGED dest_folder_id
    /\ UNCHANGED <<session, runner, spreadsheet_url, session_dest_folder_id,
                   sheet_title, headers_input, folder_id, create_dest_folder,
                   metrics, df, options, idx, counters, filename, new_doc_id,
                   exc>>

\* The destination folder is stored in the session before create_sheet is called
CreateSheetStoresFolderFirst ==
    /\ pc = "create_sheet"
    /\ session_dest_folder_id' = dest_folder_id
    /\ \/ \E info \in SheetInfos :
             /\ Log(Returned("create_sheet", 0,
                             <<sheet_title, FullHeaders(headers_input)>>, info))
             /\ spreadsheet_id' = info.spreadsheet_id
             /\ spreadsheet_url' = info.url
             /\ pc' = "sheet_created"
       \/ \E m \in Msgs :
             /\ Log(Raised("create_sheet", 0,
                           <<sheet_title, FullHeaders(headers_input)>>, m))
             /\ pc' = "create_error"
             /\ UNCHANGED <<spreadsheet_id, spreadsheet_url>>
    /\ UNCHANGED <<template_id, clicked, runner, sheet_title, headers_input,
                   folder_id, create_dest_folder, dest_folder_id, metrics, df,
                   options, idx, counters, filename, new_doc_id, exc>>

CreateSheet ==
    /\ pc = "create_sheet"
    /\ \/ \E info \in SheetInfos :
             /\ Log(Returned("create_sheet", 0,
                             <<sheet_title, FullHeaders(headers_input)>>, info))
             /\ spreadsheet_id' = info.spreadsheet_id
             /\ spreadsheet_url' = info.url
             /\ session_dest_folder_id' = dest_folder_id
             /\ pc' = "sheet_created"
       \/ \E m \in Msgs :
             /\ Log(Raised("create_sheet", 0,
                           <<sheet_title, FullHeaders(headers_input)>>, m))
             /\ pc' = "create_error"
             /\ UNCHANGED <<spreadsheet_id, spreadsheet_url,
                            session_dest_folder_id>>
    /\ UNCHANGED <<template_id, clicked, runner, sheet_title, headers_input,
                   folder_id, create_dest_folder, dest_folder_id, metrics, df,
                   options, idx, counters, filename, new_doc_id, exc>>


\* The steps of a run of the script in which "Generate Documents Now" is pressed
GenNext ==
    \/ Tab4Guard
    \/ EnsureControlColumns
    \/ ReadSheetDf
    \/ ClickGenerate
    \/ SelectRow
    \/ CopyGdoc
    \/ ReplacePlaceholders
    \/ WriteBackDone
    \/ ExceptHandler
    \/ Summary

\* The steps of a run in which "Run Agents Pipeline" is pressed
AgentNext ==
    \/ ClickRunAgents
    \/ AgentsReadSheet
    \/ RunAgentCall
    \/ RunAgentReturn
    \/ RunAgentRaise
    \/ DisplayResults

\* The steps of a run that renders the dashboard
Tab1Next ==
    \/ Tab1Guard
    \/ DashboardRead
    \/ DashboardMetrics

\* The steps of a run in which "Create Sheet" is pressed
Tab2Next ==
    \/ ClickCreateSheet
    \/ EnsureFolder
    \/ CreateSheet

Next == GenNext \/ AgentNext \/ Tab1Next \/ Tab2Next

Spec == Init /\ [][Next]_vars

GenInit == Init /\ clicked = "generate"

GenSpec == GenInit /\ [][GenNext]_vars

AgentInit == Init /\ clicked = "agents"

AgentSpec == AgentInit /\ [][AgentNext]_vars

Tab1Init == Init /\ pc = "tab1"

Tab1Spec == Tab1Init /\ [][Tab1Next]_vars

Tab2Init == Init /\ pc = "tab2"

Tab2Spec == Tab2Init /\ [][Tab2Next]_vars


(***************************************************************************)
(* Properties of the generation loop                                       *)
(***************************************************************************)
LogIndex == 1..Len(log)

Rows == 0..(Len(df) - 1)

Evaluated(k) == \E i \in LogIndex : log[i].op = "select" /\ log[i].row = k

CallsOf(op, k) == {i \in LogIndex : log[i].op = op /\ log[i].row = k}

IsDoneWrite(e) ==
    /\ e.op = "write_back"
    /\ STATUS_COL \in DOMAIN e.arg[3]
    /\ e.arg[3][STATUS_COL] = StatusDone

\* A raise inside the row's try block
IsRowFailure(e) ==
    /\ e.raised
    /\ \/ e.op \in {"copy_gdoc", "replace_placeholders"}
       \/ IsDoneWrite(e)

RunEnded == pc \in {"summary", "load_error"}

\* C1: when copy_gdoc, replace_placeholders or the success write_back raised
\* for a row, the run does not end before every later row of the sheet has
\* been evaluated against the selection filter.
C1_FailureNeverStopsRun ==
    \A i \in LogIndex :
        (IsRowFailure(log[i]) /\ RunEnded)
            => \A k \in Rows : k > log[i].row => Evaluated(k)

\* C2: in a run copy_gdoc and replace_placeholders are each called at most
\* once for a row, also when the call raised.
C2_NoRetry ==
    \A k \in 0..Len(df) :
        /\ Cardinality(CallsOf("copy_gdoc", k)) <= 1
        /\ Cardinality(CallsOf("replace_placeholders", k)) <= 1

C2_Witness ==
    /\ pc = "summary"
    /\ \E i, j \in LogIndex :
          /\ i < j
          /\ log[i].op = "copy_gdoc" /\ log[i].raised
          /\ log[j].op = "select" /\ log[j].row > log[i].row

\* C3: after a raise inside a row's try block the handler's only write is
\* one write_back for that row whose updates hold the Status cell alone, set
\* to "Error: " and at most the first 100 characters of the message, and
\* every handled failure is counted in error_count.
C3_HandlerWritesStatusOnly ==
    /\ \A i \in LogIndex :
          (IsRowFailure(log[i]) /\ i < Len(log)) =>
              LET w == log[i + 1]
                  n == IF Len(log[i].msg) < 100 THEN Len(log[i].msg) ELSE 100
              IN  /\ w.op = "write_back"
                  /\ w.row = log[i].row
                  /\ w.arg[2] = log[i].row + 2
                  /\ DOMAIN w.arg[3] = {STATUS_COL}
                  /\ w.arg[3][STATUS_COL] =
                        ErrorPrefix \o [c \in 1..n |-> log[i].msg[c]]
                  /\ (i + 1 < Len(log) =>
                         log[i + 2].op = "select" /\ log[i + 2].row > w.row)
    /\ error_count =
          Cardinality({i \in LogIndex : IsRowFailure(log[i]) /\ i < Len(log)})

C3_Witness ==
    \E i \in LogIndex :
        /\ IsRowFailure(log[i])
        /\ log[i].msg = LongMsg
        /\ i < Len(log)
        /\ ~log[i + 1].raised

\* C4: for every row the log holds its selection check, then copy_gdoc, then
\* replace_placeholders on the copy just made, then write_back; a write_back
\* carrying Status "Done" comes only after copy_gdoc and replace_placeholders
\* both returned for that row.
C4_PipelineOrder ==
    \A i \in LogIndex :
        /\ log[i].op = "copy_gdoc" =>
              i > 1 /\ log[i - 1].op = "select" /\ log[i - 1].row = log[i].row
        /\ log[i].op = "replace_placeholders" =>
              /\ i > 1
              /\ log[i - 1].op = "copy_gdoc"
              /\ ~log[i - 1].raised
              /\ log[i - 1].row = log[i].row
              /\ log[i].arg[1] = log[i - 1].ret
        /\ IsDoneWrite(log[i]) =>
              /\ i > 2
              /\ log[i - 1].op = "replace_placeholders"
              /\ ~log[i - 1].raised
              /\ log[i - 1].row = log[i].row
              /\ log[i - 2].op = "copy_gdoc"
              /\ ~log[i - 2].raised
              /\ log[i - 2].row = log[i].row

C4_Witness ==
    \E i \in LogIndex : IsDoneWrite(log[i]) /\ ~log[i].raised /\ log[i].row > 0

\* C5: the rows are evaluated in ascending order, each at most once, and the
\* run terminates: while it is inside the loop a step is always possible (no
\* call is waited for twice) and every step lowers RunMeasure, a natural
\* number that is 0 exactly at the summary and at the error message.
AscendingOnce ==
    \A i, j \in LogIndex :
        (i < j /\ log[i].op = "select" /\ log[j].op = "select")
            => log[i].row < log[j].row

InLoop == pc \in {"loop", "copy", "replace", "write_back", "except"}

StageRank ==
    IF pc = "loop" THEN 5
    ELSE IF pc = "copy" THEN 4
    ELSE IF pc = "replace" THEN 3
    ELSE IF pc = "write_back" THEN 2
    ELSE IF pc = "except" THEN 1
    ELSE 0

RunMeasure == IF RunEnded THEN 0 ELSE 6 * (Len(df) - idx) + StageRank

C5_SinglePassTerminates ==
    /\ [](AscendingOnce /\ RunMeasure >= 0)
    /\ [](InLoop => (RunMeasure > 0 /\ ENABLED Next))
    /\ [][InLoop => (InLoop' \/ RunEnded') /\ RunMeasure' < RunMeasure]_vars

C5_Witness ==
    /\ pc = "summary"
    /\ Len(df) >= 2
    /\ \A k \in Rows : Evaluated(k)
    /\ \E i \in LogIndex : IsRowFailure(log[i])

(***************************************************************************)
(* Properties of the agent runner                                          *)
(***************************************************************************)
AgentCalls == {i \in LogIndex : log[i].op = "run_agent_start"}

AgentEnds == {i \in LogIndex : log[i].op = "run_agent_end"}

AgentRunStarted == pc \in {"agent_loop", "in_run_agent", "results"}

\* C6: 1 <= num_agents <= len(agents); the i-th call of run_agent (i from 0)
\* is given agents[i]; a call is entered only when every earlier call has
\* ended; when the results are displayed exactly num_agents calls were made
\* and results holds one entry per call, in the order of the agents.
C6_AgentRunnerSequence ==
    AgentRunStarted =>
        /\ 1 <= num_agents /\ num_agents <= Len(agents)
        /\ \A i \in AgentCalls :
              /\ log[i].row = Cardinality({j \in AgentCalls : j < i})
              /\ log[i].row < num_agents
              /\ log[i].arg[1] = agents[log[i].row + 1]
              /\ Cardinality({j \in AgentEnds : j < i}) = log[i].row
        /\ Len(results) = Cardinality(AgentEnds)
        /\ \A k \in 1..Len(results) :
              results[k].agent = AgentName(agents[k], k - 1)
        /\ pc = "results" =>
              /\ Cardinality(AgentCalls) = num_agents
              /\ Len(results) = num_agents

C6_Witness ==
    /\ pc = "results"
    /\ num_agents >= 2
    /\ num_agents < Len(agents)
    /\ \E i \in AgentEnds : log[i].raised

\* C7: every call of run_agent is given the context built before the loop:
\* row_json is the JSON text of the data row at position row_number - 2 and
\* required_fields_csv is the required-fields text; the context does not
\* change while the agents run.
C7_SameContextForEveryAgent ==
    AgentRunStarted =>
        LET built == [row_json |-> JsonDumps(df[row_number - 1]),
                      required_fields_csv |-> required_fields]
        IN  /\ context = built
            /\ \A i \in AgentCalls : log[i].arg[2] = built

\* The second row kind (leading and trailing blanks, a tab) as json.dumps
\* prints it
JsonOfSecondRowKind ==
    <<"{", "\n", " ", " ", "\"", "C", "o", "m", "p", "a", "n", "y", "\"", ":",
      " ", "\"", "B", "o", "\"", ",", "\n", " ", " ", "\"", "G", "e", "n", "e",
      "r", "a", "t", "e", "\"", ":", " ", "\"", " ", "Y", "e", "s", "\\", "t",
      "\"", ",", "\n", " ", " ", "\"", "S", "t", "a", "t", "u", "s", "\"", ":",
      " ", "\"", "\"", ",", "\n", " ", " ", "\"", "D", "o", "c", " ", "U", "R",
      "L", "\"", ":", " ", "\"", " ", " ", "\"", ",", "\n", " ", " ", "\"", "G",
      "e", "n", "e", "r", "a", "t", "e", "d", " ", "A", "t", "\"", ":", " ",
      "\"", "\"", ",", "\n", " ", " ", "\"", "P", "D", "F", " ", "U", "R", "L",
      "\"", ":", " ", "\"", "\"", "\n", "}">>

C7_Witness ==
    /\ pc = "results"
    /\ row_number = 3
    /\ Cardinality(AgentCalls) >= 2
    /\ \E i \in AgentEnds : ~log[i].raised /\ log[i].row = 0
    /\ \A i \in AgentCalls : log[i].arg[2].row_json = JsonOfSecondRowKind

(***************************************************************************)
(* Properties of the selection filter and of the bookkeeping               *)
(***************************************************************************)
\* The row has been evaluated and, if selected, has reached copy_gdoc
Decided(k) == Evaluated(k) /\ ~(idx = k /\ pc = "copy")

Blank(s) == \A c \in 1..Len(s) : s[c] \in Whitespace

GenerateIsTrue(row) ==
    \E v \in TriggerValues : Lower(Strip(row[TRIGGER_COL])) = v

\* C8: in mode "Rows with Generate=TRUE" copy_gdoc is called for a row the
\* loop evaluates if and only if the row's Generate cell, trimmed and
\* lower-cased, is one of true, yes, y, 1, checked and its Doc URL cell is
\* blank after trimming.
C8_GenerateTrueSelection ==
    (gen_mode = ModeTrue /\ clicked = "generate") =>
        \A k \in Rows :
            /\ CallsOf("copy_gdoc", k) # {} =>
                  GenerateIsTrue(df[k + 1]) /\ Blank(df[k + 1][URL_COL])
            /\ (Decided(k) /\ GenerateIsTrue(df[k + 1])
                   /\ Blank(df[k + 1][URL_COL]))
                  => CallsOf("copy_gdoc", k) # {}

C8_Witness ==
    /\ gen_mode = ModeTrue
    /\ pc = "summary"
    /\ \E k, n \in Rows :
          /\ df[k + 1][TRIGGER_COL] = <<" ", "Y", "e", "s", "\t">>
          /\ df[k + 1][URL_COL] = <<" ", " ">>
          /\ CallsOf("copy_gdoc", k) # {}
          /\ df[n + 1][TRIGGER_COL] = <<"t", "r", "u", "e", "!">>
          /\ Evaluated(n)
          /\ CallsOf("copy_gdoc", n) = {}

\* C9: in every selection mode a row whose Doc URL cell is not blank is
\* never given to copy_gdoc or replace_placeholders and no write_back is
\* issued for it.
C9_IdempotencySkip ==
    clicked = "generate" =>
        \A k \in Rows :
            ~Blank(df[k + 1][URL_COL]) =>
                /\ CallsOf("copy_gdoc", k) = {}
                /\ CallsOf("replace_placeholders", k) = {}
                /\ CallsOf("write_back", k) = {}

C9_Witness ==
    /\ gen_mode = ModeManual
    /\ pc = "summary"
    /\ \E k \in Rows :
          /\ (k + 2) \in manual_sel
          /\ ~Blank(df[k + 1][URL_COL])
          /\ Evaluated(k)
    /\ \E i \in LogIndex : log[i].op = "copy_gdoc"

\* C10: a write_back that carries Status "Done" carries, in the same call,
\* Doc URL = the edit URL of the id copy_gdoc returned for the row and
\* Generated At = the time of the call, and carries PDF URL if and only if
\* Export PDF is checked; no other write_back of the run carries Doc URL,
\* Generated At or PDF URL, and a row gets at most one such write.
C10_SuccessBookkeeping ==
    \A i \in LogIndex :
        log[i].op = "write_back" =>
            LET u == log[i].arg[3]
                copies == {j \in CallsOf("copy_gdoc", log[i].row) :
                              ~log[j].raised}
            IN  IF IsDoneWrite(log[i])
                THEN /\ DOMAIN u = {STATUS_COL, URL_COL, TS_COL}
                                   \cup (IF create_pdf THEN {PDF_URL_COL}
                                         ELSE {})
                     /\ \E j \in copies :
                           u[URL_COL] =
                             <<"h", "t", "t", "p", "s", ":", "/", "/", "d",
                               "o", "c", "s", ".", "g", "o", "o", "g", "l",
                               "e", ".", "c", "o", "m", "/", "d", "o", "c",
                               "u", "m", "e", "n", "t", "/", "d", "/">>
                             \o log[j].ret \o <<"/", "e", "d", "i", "t">>
                     /\ u[TS_COL] = Strftime(log[i].at)
                     /\ \A j \in CallsOf("write_back", log[i].row) :
                           IsDoneWrite(log[j]) => j = i
                ELSE DOMAIN u \cap {URL_COL, TS_COL, PDF_URL_COL} = {}

C10_Witness ==
    /\ ~create_pdf
    /\ pc = "summary"
    /\ \E i, j \in LogIndex :
          /\ i < j
          /\ IsDoneWrite(log[i]) /\ ~log[i].raised
          /\ IsDoneWrite(log[j]) /\ ~log[j].raised
          /\ log[i].arg[3][URL_COL] # log[j].arg[3][URL_COL]

(***************************************************************************)
(* Properties of the counters                                              *)
(***************************************************************************)
\* The rows that passed the selection filter and the Doc URL skip
AttemptedRows == {k \in Rows : Evaluated(k) /\ CallsOf("copy_gdoc", k) # {}}

DoneRows ==
    {k \in Rows : \E i \in CallsOf("write_back", k) :
                     IsDoneWrite(log[i]) /\ ~log[i].raised}

SkippedRows == {k \in Rows : Evaluated(k) /\ CallsOf("copy_gdoc", k) = {}}

\* C12: when the summary is shown success_count + error_count is the number
\* of rows that passed the selection filter and the Doc URL skip,
\* success_count is the number of rows whose "Done" write_back returned, and
\* the rows that were skipped are counted in neither.
C12_CountersCountAttemptedRows ==
    pc = "summary" =>
        /\ success_count + error_count = Cardinality(AttemptedRows)
        /\ success_count = Cardinality(DoneRows)
        /\ error_count = Cardinality(AttemptedRows \ DoneRows)
        /\ AttemptedRows \cup SkippedRows = Rows
        /\ AttemptedRows \cap SkippedRows = {}

C12_Witness ==
    /\ pc = "summary"
    /\ success_count = 1
    /\ error_count = 1
    /\ \E i \in LogIndex : IsDoneWrite(log[i]) /\ log[i].raised

(***************************************************************************)
(* Properties of the agent runner's error handling                         *)
(***************************************************************************)
\* C13: every call of run_agent that ended has exactly one entry in results,
\* of status "success" with the output returned, or of status "error" with
\* output "Error: " followed by the whole message when the call raised; when
\* the results are displayed every agent 0 .. num_agents-1 has been run
\* once, whatever the earlier agents did.
C13_AgentFailureIsolated ==
    /\ Len(results) = Cardinality(AgentEnds)
    /\ \A j \in AgentEnds :
          LET k == log[j].row
          IN  /\ k + 1 <= Len(results)
              /\ results[k + 1].agent = AgentName(agents[k + 1], k)
              /\ results[k + 1].status =
                    (IF log[j].raised THEN "error" ELSE "success")
              /\ results[k + 1].output =
                    (IF log[j].raised
                     THEN <<"E", "r", "r", "o", "r", ":", " ">> \o log[j].msg
                     ELSE log[j].ret)
              /\ \A i \in AgentEnds : log[i].row = k => i = j
    /\ pc = "results" =>
          \A k \in 0..(num_agents - 1) : \E j \in AgentEnds : log[j].row = k

C13_Witness ==
    /\ pc = "results"
    /\ \E i, j \in AgentEnds :
          /\ log[i].row = 0 /\ log[i].raised /\ log[i].msg = LongMsg
          /\ log[j].row = num_agents - 1 /\ ~log[j].raised /\ i < j

ReadReturned ==
    \E i \in LogIndex : log[i].op = "read_sheet_df" /\ ~log[i].raised

\* C14: run_agent is called only for a non-empty spreadsheet id and a row
\* number with 0 <= row_number - 2 <= len(df) - 1 in the sheet just read;
\* with an empty id, or with the row out of that range, the run ends at the
\* error message without a call of run_agent.
C14_NoRunForInvalidTarget ==
    /\ AgentCalls # {} =>
          /\ spreadsheet_id # <<>>
          /\ row_number - 2 \in 0..(Len(df) - 1)
    /\ (pc # "tab5" /\ spreadsheet_id = <<>>) =>
          pc = "need_sheet" /\ log = <<>>
    /\ (ReadReturned /\ row_number - 2 \notin 0..(Len(df) - 1)) =>
          pc = "out_of_range" /\ AgentCalls = {}

C14_Witness ==
    /\ pc = "out_of_range"
    /\ Len(df) = 1
    /\ row_number = 3

(***************************************************************************)
(* Properties of Manual selection and of the tab's guard                   *)
(***************************************************************************)
\* C15: in mode "Manual selection" the numbers that can be selected are the
\* sheet row numbers 2 .. len(df)+1; copy_gdoc is called for the data row at
\* position k only if k + 2 is selected and the row's Doc URL is blank; with
\* nothing selected copy_gdoc is not called at all.
C15_ManualSelection ==
    (clicked = "generate" /\ gen_mode = ModeManual) =>
        /\ \A n \in manual_sel : 2 <= n /\ n <= Len(df) + 1
        /\ \A k \in Rows :
              CallsOf("copy_gdoc", k) # {} =>
                  (k + 2) \in manual_sel /\ Blank(df[k + 1][URL_COL])
        /\ manual_sel = {} => \A i \in LogIndex : log[i].op # "copy_gdoc"

C15_Witness ==
    /\ gen_mode = ModeManual
    /\ pc = "summary"
    /\ Len(df) = 2
    /\ manual_sel = {3}
    /\ Blank(df[1][URL_COL])
    /\ CallsOf("copy_gdoc", 0) = {}
    /\ CallsOf("copy_gdoc", 1) # {}

GuardedCalls ==
    {"ensure_control_columns", "read_sheet_df", "copy_gdoc", "write_back"}

\* C16: on the Generate Docs tab ensure_control_columns, read_sheet_df,
\* copy_gdoc and write_back are called only when the session holds a
\* non-empty spreadsheet_id and a non-empty template_id, and the sheet is
\* read only after ensure_control_columns has returned.
C16_GenerationGatedOnSetup ==
    /\ (\E i \in LogIndex : log[i].op \in GuardedCalls) =>
          spreadsheet_id # <<>> /\ template_id # <<>>
    /\ \A i \in LogIndex :
          log[i].op = "read_sheet_df" =>
              \E j \in 1..(i - 1) :
                  log[j].op = "ensure_control_columns" /\ ~log[j].raised
    /\ (spreadsheet_id = <<>> \/ template_id = <<>>) =>
          pc \in {"tab4", "warn_sheet", "warn_template"}

C16_Witness ==
    /\ \E i \in LogIndex : log[i].op = "write_back"
    /\ \E i \in LogIndex : log[i].op = "copy_gdoc"

(***************************************************************************)
(* Properties of the dashboard                                              *)
(***************************************************************************)
\* Rows whose Status cell begins with the four characters D, o, n, e
DoneStatusRows ==
    {i \in 1..Len(df) :
        /\ Len(df[i][STATUS_COL]) >= 4
        /\ SubSeq(df[i][STATUS_COL], 1, 4) = <<"D", "o", "n", "e">>}

\* Rows whose Status cell begins with the five characters E, r, r, o, r
ErrorStatusRows ==
    {i \in 1..Len(df) :
        /\ Len(df[i][STATUS_COL]) >= 5
        /\ SubSeq(df[i][STATUS_COL], 1, 5) = <<"E", "r", "r", "o", "r">>}

\* C11: whenever the dashboard shows its metrics, the rows of the sheet are
\* partitioned into done, error and pending: done_count counts the rows whose
\* Status starts with "Done", error_count those whose Status starts with
\* "Error", no row is in both, pending_count counts the remaining rows, the
\* three counts are non-negative and add up to total_rows, and done_count
\* does not exceed total_rows.
C11_MetricsPartitionRows ==
    pc = "dash_metrics" =>
        /\ metrics.total_rows = Len(df)
        /\ metrics.done_count = Cardinality(DoneStatusRows)
        /\ metrics.error_count = Cardinality(ErrorStatusRows)
        /\ DoneStatusRows \cap ErrorStatusRows = {}
        /\ metrics.pending_count =
             Cardinality((1..Len(df)) \ (DoneStatusRows \cup ErrorStatusRows))
        /\ metrics.done_count >= 0
        /\ metrics.error_count >= 0
        /\ metrics.pending_count >= 0
        /\ metrics.done_count + metrics.error_count + metrics.pending_count
             = metrics.total_rows
        /\ metrics.done_count <= metrics.total_rows

\* Metrics of a sheet with a done row whose Status also holds the word Error
C11_Witness ==
    /\ pc = "dash_metrics"
    /\ metrics.total_rows = 2
    /\ metrics.done_count = 1
    /\ metrics.error_count = 1
    /\ \E i \in 1..Len(df) :
          /\ i \in DoneStatusRows
          /\ Contains(df[i][STATUS_COL], <<"E", "r", "r", "o", "r">>)

(***************************************************************************)
(* Properties of "Create Sheet"                                             *)
(***************************************************************************)
Cuts(s) == {0, Len(s) + 1} \cup {i \in 1..Len(s) : s[i] = ","}

\* The text between the cut a and the next cut
Piece(s, a) ==
    LET b == CHOOSE c \in Cuts(s) :
                 c > a /\ \A d \in Cuts(s) : d > a => c <= d
    IN  SubSeq(s, a + 1, b - 1)

Inked(p) == {i \in 1..Len(p) : p[i] \notin Whitespace}

\* p without the whitespace around it
Trimmed(p) ==
    IF Inked(p) = {} THEN <<>>
    ELSE LET lo == CHOOSE i \in Inked(p) : \A j \in Inked(p) : i <= j
             hi == CHOOSE i \in Inked(p) : \A j \in Inked(p) : i >= j
         IN  SubSeq(p, lo, hi)

KeptCuts(s) == {a \in Cuts(s) \ {Len(s) + 1} : Trimmed(Piece(s, a)) # <<>>}

ExpectedHeaders(s) ==
    [k \in 1..Cardinality(KeptCuts(s)) |->
        Trimmed(Piece(s, CHOOSE a \in KeptCuts(s) :
                             Cardinality({b \in KeptCuts(s) : b < a}) = k - 1))]

\* C17: every call of create_sheet receives the sheet title and, as headers,
\* the pieces of the headers input between its commas, each trimmed of the
\* whitespace around it, the blank ones dropped, in their order, followed by
\* Generate, Status, Doc URL, Generated At, PDF URL in this order.
C17_CreateSheetHeaders ==
    \A i \in LogIndex :
        log[i].op = "create_sheet" =>
            log[i].arg =
                <<sheet_title,
                  ExpectedHeaders(headers_input)
                  \o <<<<"G", "e", "n", "e", "r", "a", "t", "e">>,
                       <<"S", "t", "a", "t", "u", "s">>,
                       <<"D", "o", "c", " ", "U", "R", "L">>,
                       <<"G", "e", "n", "e", "r", "a", "t", "e", "d", " ", "A", "t">>,
                       <<"P", "D", "F", " ", "U", "R", "L">>>> >>

\* create_sheet called for an input with padded and blank pieces
C17_Witness ==
    \E i \in LogIndex :
        /\ log[i].op = "create_sheet"
        /\ headers_input = <<" ", "A", " ", ",", ",", "B", " ", ",", " ">>
        /\ log[i].arg[2] =
             << <<"A">>, <<"B">>,
                <<"G", "e", "n", "e", "r", "a", "t", "e">>,
                <<"S", "t", "a", "t", "u", "s">>,
                <<"D", "o", "c", " ", "U", "R", "L">>,
                <<"G", "e", "n", "e", "r", "a", "t", "e", "d", " ", "A", "t">>,
                <<"P", "D", "F", " ", "U", "R", "L">> >>

SessionSheet == <<spreadsheet_id, spreadsheet_url, session_dest_folder_id>>

LastCall == log[Len(log)]

\* C18: the session's spreadsheet_id, spreadsheet_url and dest_folder_id
\* change only in the step in which create_sheet returns, and then all three
\* are set together, to the id and url create_sheet returned and to the
\* folder of this click; a run that ends in the error message has no
\* returned create_sheet and has not changed any of them.
C18_SessionAllOrNothing ==
    /\ [][SessionSheet' # SessionSheet =>
            /\ pc = "create_sheet"
            /\ pc' = "sheet_created"
            /\ Len(log') = Len(log) + 1
            /\ LastCall'.op = "create_sheet"
            /\ ~LastCall'.raised
            /\ spreadsheet_id' = LastCall'.ret.spreadsheet_id
            /\ spreadsheet_url' = LastCall'.ret.url
            /\ session_dest_folder_id' = dest_folder_id]_vars
    /\ [](pc = "create_error" =>
            /\ LastCall.raised
            /\ LastCall.op \in {"ensure_folder", "create_sheet"}
            /\ \A i \in LogIndex :
                  log[i].op = "create_sheet" => log[i].raised)
    /\ [](pc = "sheet_created" =>
            /\ ~LastCall.raised
            /\ SessionSheet = <<LastCall.ret.spreadsheet_id, LastCall.ret.url,
                                dest_folder_id>>)

\* create_sheet raised after ensure_folder had returned a folder that is not
\* the session's
C18_Witness ==
    /\ pc = "create_error"
    /\ Len(log) = 2
    /\ log[1].op = "ensure_folder"
    /\ ~log[1].raised
    /\ log[2].op = "create_sheet"
    /\ log[2].raised
    /\ dest_folder_id # session_dest_folder_id
    /\ spreadsheet_id # <<>>

(***************************************************************************)
(* Properties of the filename                                               *)
(***************************************************************************)
Braces == {"{", "}"}

BraceFree(s) == \A i \in 1..Len(s) : s[i] \notin Braces

\* s is brace-free text with groups {{name}} of a brace-free name in it
RECURSIVE PlainPattern(_)
PlainPattern(s) ==
    IF BraceFree(s) THEN TRUE
    ELSE LET i == CHOOSE j \in 1..Len(s) :
                      s[j] \in Braces /\ BraceFree(SubSeq(s, 1, j - 1))
             closing == {j \in (i + 2)..(Len(s) - 1) :
                            /\ s[j] = "}"
                            /\ s[j + 1] = "}"
                            /\ BraceFree(SubSeq(s, i + 2, j - 1))}
         IN  /\ i < Len(s)
             /\ s[i] = "{"
             /\ s[i + 1] = "{"
             /\ closing # {}
             /\ PlainPattern(SubSeq(s, (CHOOSE j \in closing : TRUE) + 2,
                                    Len(s)))

HasPlaceholder(s, c) ==
    \E i \in 1..(Len(s) - Len(c) - 3) :
        SubSeq(s, i, i + Len(c) + 3) = <<"{", "{">> \o c \o <<"}", "}">>

CopyCalls == {i \in LogIndex : log[i].op = "copy_gdoc"}

\* The claim as stated: whatever the pattern and the cells, the filename
\* passed to copy_gdoc contains {{c}} for no column c of the sheet.
C19_NoColumnPlaceholderLeft ==
    \A i \in CopyCalls :
        \A c \in DOMAIN df[log[i].row + 1] : ~HasPlaceholder(log[i].arg[2], c)

\* C19 (amended): when the filename pattern is brace-free text with groups
\* {{name}} of brace-free names in it, and neither a column name nor a cell
\* of the row contains a brace, the filename passed to copy_gdoc contains
\* {{c}} for no column c of the sheet.
C19_PlainFilenameFullySubstituted ==
    \A i \in CopyCalls :
        LET row == df[log[i].row + 1]
        IN  (/\ PlainPattern(custom_filename)
             /\ \A c \in DOMAIN row : BraceFree(c) /\ BraceFree(row[c]))
            => \A c \in DOMAIN row : ~HasPlaceholder(log[i].arg[2], c)

\* copy_gdoc called for a plain pattern that names a column twice
C19_Witness ==
    \E i \in CopyCalls :
        /\ custom_filename = <<"{", "{", "C", "o", "m", "p", "a", "n", "y", "}", "}", "-", "{", "{", "C", "o", "m", "p", "a", "n", "y", "}", "}">>
        /\ PlainPattern(custom_filename)
        /\ \A c \in DOMAIN df[1] : BraceFree(df[1][c])
        /\ log[i].arg[2] = <<"A", "c", "m", "e", "-", "A", "c", "m", "e">>

====
